---- MODULE Spec2Model ----
(***************************************************************************)
(* Model of app.py, the Streamlit invoice orchestrator.  One behaviour is  *)
(* a sequence of script runs; a run executes app.py top to bottom for the  *)
(* widget values of one interaction.  Every external call (pdfplumber,     *)
(* fitz, the Gemini client, the n8n webhook) is a nondeterministic choice  *)
(* over the outcomes the call can have.                                    *)
(*                                                                         *)
(* Text is a sequence of characters.  A JSON / Python value is a tagged    *)
(* record [t |-> tag, v |-> payload] so that values of different Python    *)
(* types can be compared.                                                  *)
(***************************************************************************)
EXTENDS Integers, Sequences, FiniteSets, TLC

VARIABLES pc, uploaded_file, user_question, raw_text, messages, modelCalls,
          modelOutcome, extraction, offered, recipient, send_button, payload, posts,
          postOutcome, n8n_resp, n8n_data, final_answer, email_body, status,
          rendered

vars == <<pc, uploaded_file, user_question, raw_text, messages, modelCalls,
          modelOutcome, extraction, offered, recipient, send_button, payload, posts,
          postOutcome, n8n_resp, n8n_data, final_answer, email_body, status,
          rendered>>

\* ------------------------------------------------------------------ bounds
MaxPages == 2

DocTextCap == 50000

\* ------------------------------------------------------- Python/JSON values
JStr(s) == [t |-> "str", v |-> s]
JText(s) == [t |-> "text", v |-> s]
JNum(n) == [t |-> "num", v |-> n]
JDict(f) == [t |-> "dict", v |-> f]
JList(s) == [t |-> "list", v |-> s]
JNull == [t |-> "null", v |-> ""]
EmptyDict == JDict(<<>>)
NoValue == [t |-> "unset", v |-> ""]
Raised == [t |-> "raise", v |-> "AttributeError"]

\* Python truth value of an object (used by "if x" and by "a or b").
Truthy(x) ==
    CASE x.t = "str" -> x.v # ""
      [] x.t = "text" -> Len(x.v) > 0
      [] x.t = "num" -> x.v # 0
      [] x.t = "dict" -> DOMAIN x.v # {}
      [] x.t = "list" -> Len(x.v) > 0
      [] OTHER -> FALSE

\* dict.get(k): the value under k, None when k is absent.
Get(d, k) == IF k \in DOMAIN d.v THEN d.v[k] ELSE JNull

\* dict.get(k, default)
GetDefault(d, k, default) == IF k \in DOMAIN d.v THEN d.v[k] ELSE default

\* a or b
PyOr(a, b) == IF Truthy(a) THEN a ELSE b

Min(a, b) == IF a <= b THEN a ELSE b

\* s[:n]
Take(s, n) == SubSeq(s, 1, Min(Len(s), n))

\* ------------------------------------------------------- text extraction
Separator == <<"\n", "\n">>

RECURSIVE Join(_)
\* "\n\n".join(chunks)
Join(chunks) ==
    IF Len(chunks) = 0 THEN <<>>
    ELSE IF Len(chunks) = 1 THEN chunks[1]
    ELSE chunks[1] \o Separator \o Join(Tail(chunks))

HasText(t) == Len(t) > 0

\* The chunks pdfplumber appended before it stopped: the truthy texts of the
\* first n pages.
PlumberChunks(pages, n) == SelectSeq(SubSeq(pages, 1, n), HasText)

\* The chunks fitz appends: every page's get_text(), empty or not.
FitzChunks(pages) == pages

\* extract_text_from_pdf.  f.failAt = 0: pdfplumber succeeds; f.failAt = k > 0:
\* pdfplumber throws while reading page k (at open when the file has no
\* page k), after the texts of the pages before k were appended to
\* text_chunks.  f.fitzFails: the fallback throws too.
extract_text_from_pdf(f) ==
    IF f.failAt = 0
    THEN [text |-> Join(PlumberChunks(f.pages, Len(f.pages))), msgs |-> {}]
    ELSE IF f.fitzFails
    THEN [text |-> <<>>,
          msgs |-> {"warning: pdfplumber failed",
                    "error: PDF extraction fallback failed"}]
    ELSE [text |-> Join(PlumberChunks(f.pages, f.failAt - 1) \o FitzChunks(f.pages)),
          msgs |-> {"warning: pdfplumber failed"}]

\* bytes.decode("utf-8", errors="replace"): an invalid byte becomes U+FFFD.
DecodeByte(b) == IF b = "xFF" THEN "uFFFD" ELSE b

extract_text_from_txt(f) ==
    [text |-> [i \in 1..Len(f.bytes) |-> DecodeByte(f.bytes[i])], msgs |-> {}]

\* uploaded_file.name.lower().endswith(".pdf")
IsPdfName(name) == name \in {"inv.pdf", "INV.PDF"}

\* ------------------------------------------------------ Gemini extraction
\* A reply text is a sequence of tokens: " " is whitespace, "fence_json" and
\* "fence" are the two markdown fence markers of line 126, every other token is a run of text without
\* whitespace or fences.  JsonDocs is what json.loads makes of the tokens
\* that are complete JSON documents; any other token ("prose") is not JSON.
Pair(k, val) == JDict(("key" :> JStr(k)) @@ ("value" :> JStr(val)))

JsonDocs ==
    ("pairs0" :> JDict("extracted_pairs" :> JList(<<>>)))
    @@ ("full" :> JDict(("extracted_pairs" :> JList(<<Pair("Total", "1200")>>))
                        @@ ("risk_level" :> JStr("Low"))
                        @@ ("summary" :> JStr("s"))))
    @@ ("nopairs" :> JDict("summary" :> JStr("s")))
    @@ ("badpair" :> JDict("extracted_pairs" :> JList(<<JDict("key" :> JStr("Total"))>>)))
    @@ ("errpairs" :> JDict(("error" :> JStr("x")) @@ ("extracted_pairs" :> JList(<<>>))))
    @@ ("list" :> JList(<<>>))
    @@ ("num" :> JNum(42))
    @@ ("null" :> JNull)

IsSpace(c) == c = " "

RECURSIVE LStrip(_)
LStrip(s) == IF Len(s) > 0 /\ IsSpace(Head(s)) THEN LStrip(Tail(s)) ELSE s

RECURSIVE RStrip(_)
RStrip(s) ==
    IF Len(s) > 0 /\ IsSpace(s[Len(s)]) THEN RStrip(SubSeq(s, 1, Len(s) - 1)) ELSE s

\* str.strip()
Strip(s) == LStrip(RStrip(s))

\* str.replace(tok, "")
Remove(s, tok) == SelectSeq(s, LAMBDA c : c # tok)

\* Line 126: strip, remove the json fence marker, remove the plain fence
\* marker, strip again.
Clean(raw) == Strip(Remove(Remove(Strip(raw), "fence_json"), "fence"))

\* f"Gemini API call failed: {e}", word by word
GeminiErrorMessage(e) == <<"Gemini", "API", "call", "failed:", e>>

\* call_gemini with line 122 moved below the try block: a response without
\* candidates raises out of the function.
call_gemini_TextReadOutsideTry(o) ==
    IF o.kind = "raise"
    THEN JDict("error" :> JText(GeminiErrorMessage(o.e)))
    ELSE IF o.kind = "nocand"
    THEN Raised
    ELSE LET cleaned == Clean(o.raw)
         IN  IF Len(cleaned) = 1 /\ cleaned[1] \in DOMAIN JsonDocs
             THEN JsonDocs[cleaned[1]]
             ELSE JDict(("raw_output" :> JText(cleaned))
                        @@ ("parse_error" :> JStr("JSONDecodeError")))

\* The outcome of the try block of call_gemini:
\*   kind "raise":  genai.chat.create raised e (transport, service, timeout);
\*   kind "nocand": a response came back without candidates[0].content[0],
\*                  so reading .text raised e inside the same try block;
\*   kind "text":   raw_text was read from the response.
\* The result is the value call_gemini returns.
call_gemini(o) ==
    IF o.kind \in {"raise", "nocand"}
    THEN JDict("error" :> JText(GeminiErrorMessage(o.e)))
    ELSE LET cleaned == Clean(o.raw)
         IN  IF Len(cleaned) = 1 /\ cleaned[1] \in DOMAIN JsonDocs
             THEN JsonDocs[cleaned[1]]
             ELSE JDict(("raw_output" :> JText(cleaned))
                        @@ ("parse_error" :> JStr("JSONDecodeError")))

ReplyTexts ==
    {<<d>> : d \in DOMAIN JsonDocs \cup {"prose"}}
    \cup {<<>>,
          <<"fence_json", " ", "pairs0", " ", "fence">>,
          <<" ", "full", " ">>,
          <<"fence", "prose", "fence">>,
          <<"prose", " ", "pairs0">>}

GeminiOutcomes ==
    {[kind |-> "raise", e |-> e, raw |-> <<>>] : e \in {"timeout", "503"}}
    \cup {[kind |-> "nocand", e |-> "list index out of range", raw |-> <<>>]}
    \cup {[kind |-> "text", e |-> "", raw |-> r] : r \in ReplyTexts}

\* INVOICE_SCHEMA: one item of extracted_pairs.
ConformsPair(p) ==
    /\ p.t = "dict"
    /\ {"key", "value"} \subseteq DOMAIN p.v
    /\ p.v["key"].t = "str"
    /\ p.v["value"].t = "str"
    /\ ("confidence" \in DOMAIN p.v => p.v["confidence"].t = "num")
    /\ ("reason" \in DOMAIN p.v => p.v["reason"].t = "str")

\* INVOICE_SCHEMA: the whole object.
ConformsInvoiceSchema(r) ==
    /\ r.t = "dict"
    /\ "extracted_pairs" \in DOMAIN r.v
    /\ r.v["extracted_pairs"].t = "list"
    /\ \A i \in 1..Len(r.v["extracted_pairs"].v) : ConformsPair(r.v["extracted_pairs"].v[i])
    /\ ("risk_level" \in DOMAIN r.v => r.v["risk_level"].t = "str")
    /\ ("summary" \in DOMAIN r.v => r.v["summary"].t = "str")

\* ------------------------------------------------------------- n8n webhook
\* A payload that forwards the extraction only when it is not an error record.
BuildPayload_DropsErrorRecord(text, extr, question, recip, name) ==
    [document_text |-> Take(text, DocTextCap),
     extracted_json |-> IF extr.t = "dict" /\ "error" \in DOMAIN extr.v
                        THEN EmptyDict ELSE extr,
     user_question |-> question,
     recipient_email |-> recip,
     file_name |-> name]

\* The payload of lines 166-172.
BuildPayload(text, extr, question, recip, name) ==
    [document_text |-> Take(text, DocTextCap),
     extracted_json |-> extr,
     user_question |-> question,
     recipient_email |-> recip,
     file_name |-> name]

\* r.json() called after the try block: a non-JSON body raises out of it.
PostResult_JsonOutsideTry(o) ==
    IF o.kind = "json" THEN o.body
    ELSE IF o.kind = "nonjson" THEN Raised
    ELSE JDict("error" :> JStr(o.kind))

\* The outcome of the try block around requests.post:
\*   "transport": requests.post raised;  "status": raise_for_status raised;
\*   "nonjson":   r.json() raised;       "json":   r.json() returned o.body.
PostResult(o) ==
    IF o.kind = "json" THEN o.body ELSE JDict("error" :> JStr(o.kind))

\* Normalization that forgets the json field of a list element.
NormalizeResponse_ListElementAsIs(resp) ==
    IF resp.t = "list"
    THEN IF Len(resp.v) > 0
         THEN IF resp.v[1].t = "dict" THEN resp.v[1] ELSE Raised
         ELSE EmptyDict
    ELSE IF resp.t = "dict"
    THEN GetDefault(resp, "json", resp)
    ELSE EmptyDict

\* Normalization whose dict branch defaults to {} instead of the dict itself.
NormalizeResponse_DictDefaultEmpty(resp) ==
    IF resp.t = "list"
    THEN IF Len(resp.v) > 0
         THEN IF resp.v[1].t = "dict"
              THEN GetDefault(resp.v[1], "json", resp.v[1])
              ELSE Raised
         ELSE EmptyDict
    ELSE IF resp.t = "dict"
    THEN GetDefault(resp, "json", EmptyDict)
    ELSE EmptyDict

\* Lines 185-190.  Raised: n8n_resp[0].get raised (element 0 is not a dict).
NormalizeResponse(resp) ==
    IF resp.t = "list"
    THEN IF Len(resp.v) > 0
         THEN IF resp.v[1].t = "dict"
              THEN GetDefault(resp.v[1], "json", resp.v[1])
              ELSE Raised
         ELSE EmptyDict
    ELSE IF resp.t = "dict"
    THEN GetDefault(resp, "json", resp)
    ELSE EmptyDict

\* The two keys read in the opposite order.
PickField_AlternateFirst(d, first, alternate) == PyOr(Get(d, alternate), Get(d, first))

\* n8n_data.get(first) or n8n_data.get(alternate)
PickField(d, first, alternate) == PyOr(Get(d, first), Get(d, alternate))

\* str(status).lower()
Lower(s) == IF s = "Sent" THEN "sent" ELSE s

\* Lines 202-209: how the status expander is styled.
StatusMessage(st) ==
    IF Truthy(st)
    THEN IF st.t = "str" /\ Lower(st.v) \in {"sent", "ok", "succeeded", "true"}
         THEN "success: Email Status"
         ELSE "warning: Email Status"
    ELSE "info: No automation status returned by n8n"

\* ------------------------------------------------------------ the inputs
PageTexts == {<<>>, <<"a">>, <<"b">>}

PageSeqs == UNION {[1..n -> PageTexts] : n \in 0..MaxPages}

Max(a, b) == IF a >= b THEN a ELSE b

NoFile == [name |-> "", pages |-> <<>>, bytes |-> <<>>, failAt |-> 0, fitzFails |-> FALSE]

PdfFiles ==
    {[name |-> "INV.PDF", pages |-> p, bytes |-> <<>>, failAt |-> k, fitzFails |-> ff] :
        <<p, k, ff>> \in {x \in PageSeqs \X (0..MaxPages) \X BOOLEAN :
                            /\ x[2] <= Max(Len(x[1]), 1)
                            /\ (x[2] = 0 => ~x[3])}}

TxtFiles ==
    {[name |-> "inv.txt", pages |-> <<>>, bytes |-> b, failAt |-> 0, fitzFails |-> FALSE] :
        b \in {<<>>, <<"a">>, <<"xFF">>, <<"a", "xFF">>}}

Files == {NoFile} \cup PdfFiles \cup TxtFiles

Questions == {"", "total?"}

Recipients == {"", "approver@example.com"}

\* The three pairs of keys of lines 192-194.
FieldPairs ==
    {<<"final_answer", "finalAnswer">>,
     <<"email_body", "emailBody">>,
     <<"automation_status", "status">>}

\* A flat reply object holding v1 under k1 and v2 under k2 (NoValue: absent).
MkDict(k1, v1, k2, v2) ==
    JDict([k \in (IF v1 = NoValue THEN {} ELSE {k1}) \cup (IF v2 = NoValue THEN {} ELSE {k2})
             |-> IF k = k1 THEN v1 ELSE v2])

FlatDicts ==
    {MkDict(kp[1], v1, kp[2], v2) :
        <<kp, v1, v2>> \in FieldPairs \X {NoValue, JStr(""), JNull, JStr("Sent")}
                                     \X {NoValue, JStr("pending")}}

Wrap(d) == JDict("json" :> d)

\* The JSON bodies the webhook may answer with.
JsonBodies ==
    FlatDicts
    \cup {Wrap(d) : d \in FlatDicts}
    \cup {JList(<<d>>) : d \in FlatDicts}
    \cup {JList(<<Wrap(d), d>>) : d \in FlatDicts}
    \cup {JList(<<>>), JStr("ok"), JNull, JNum(1),
          Wrap(JStr("ok")), Wrap(JNull), Wrap(JList(<<EmptyDict>>)),
          Wrap(Wrap(MkDict("final_answer", JStr("Sent"), "finalAnswer", NoValue))),
          Wrap(MkDict("json", EmptyDict, "status", JStr("Sent"))),
          JList(<<JStr("ok")>>), JList(<<JList(<<EmptyDict>>)>>), JList(<<JNull>>)}

PostOutcomes ==
    {[kind |-> k, body |-> JNull] : k \in {"transport", "status", "nonjson"}}
    \cup {[kind |-> "json", body |-> b] : b \in JsonBodies}

\* --------------------------------------------------------- the script run
\* The state before a run: nothing read, nothing displayed, nothing sent.
Init ==
    /\ pc = "idle"
    /\ uploaded_file = NoFile
    /\ user_question = ""
    /\ raw_text = <<>>
    /\ messages = {}
    /\ modelCalls = 0
    /\ modelOutcome = "none"
    /\ extraction = NoValue
    /\ offered = FALSE
    /\ recipient = ""
    /\ send_button = FALSE
    /\ payload = NoValue
    /\ posts = 0
    /\ postOutcome = "none"
    /\ n8n_resp = NoValue
    /\ n8n_data = NoValue
    /\ final_answer = NoValue
    /\ email_body = NoValue
    /\ status = NoValue
    /\ rendered = "none"

\* Lines 135-138 and 216-217: the widgets are read; without a file or a
\* question the run only shows the hint.
ReadInputs ==
    /\ pc = "idle"
    /\ \E f \in Files, q \in Questions :
        /\ uploaded_file' = f
        /\ user_question' = q
        /\ IF f # NoFile /\ q # ""
           THEN pc' = "extract" /\ messages' = messages
           ELSE pc' = "done" /\ messages' = messages \cup {"info: Upload an invoice"}
    /\ UNCHANGED <<raw_text, modelCalls, modelOutcome, extraction, offered, recipient, send_button,
                   payload, posts, postOutcome, n8n_resp, n8n_data, final_answer,
                   email_body, status, rendered>>

\* Lines 139-140.
ExtractText ==
    /\ pc = "extract"
    /\ LET r == IF IsPdfName(uploaded_file.name)
                THEN extract_text_from_pdf(uploaded_file)
                ELSE extract_text_from_txt(uploaded_file)
       IN  /\ raw_text' = r.text
           /\ messages' = messages \cup r.msgs
    /\ pc' = "check"
    /\ UNCHANGED <<uploaded_file, user_question, modelCalls, modelOutcome, extraction, offered,
                   recipient, send_button, payload, posts, postOutcome, n8n_resp,
                   n8n_data, final_answer, email_body, status, rendered>>

\* The empty-text check without st.stop().
CheckText_NoStop ==
    /\ pc = "check"
    /\ messages' = messages \cup
           {IF raw_text = <<>> THEN "error: No text extracted from the document."
                               ELSE "preview"}
    /\ pc' = "gemini"
    /\ UNCHANGED <<uploaded_file, user_question, raw_text, modelCalls, modelOutcome,
                   extraction, offered, recipient, send_button, payload, posts,
                   postOutcome, n8n_resp, n8n_data, final_answer, email_body, status,
                   rendered>>

\* Lines 142-148: st.stop() on empty text, the preview otherwise.
CheckText ==
    /\ pc = "check"
    /\ IF raw_text = <<>>
       THEN /\ messages' = messages \cup {"error: No text extracted from the document."}
            /\ pc' = "stopped"
       ELSE /\ messages' = messages \cup {"preview"}
            /\ pc' = "gemini"
    /\ UNCHANGED <<uploaded_file, user_question, raw_text, modelCalls, modelOutcome, extraction,
                   offered, recipient, send_button, payload, posts, postOutcome,
                   n8n_resp, n8n_data, final_answer, email_body, status, rendered>>

\* Lines 151-155: one call of call_gemini, whose try block makes one request.
CallGemini ==
    /\ pc = "gemini"
    /\ \E o \in GeminiOutcomes :
        /\ extraction' = call_gemini(o)
        /\ modelOutcome' = o.kind
        /\ modelCalls' = modelCalls + 1
    /\ messages' = messages \cup {"success: Extraction complete."}
    /\ pc' = "widgets"
    /\ UNCHANGED <<uploaded_file, user_question, raw_text, offered, recipient,
                   send_button, payload, posts, postOutcome, n8n_resp, n8n_data,
                   final_answer, email_body, status, rendered>>

\* Lines 158-162: the recipient field and the button are offered and read.
Widgets ==
    /\ pc = "widgets"
    /\ offered' = TRUE
    /\ \E r \in Recipients, b \in BOOLEAN :
        /\ recipient' = r
        /\ send_button' = b
        /\ pc' = IF b THEN "send" ELSE "done"
    /\ UNCHANGED <<uploaded_file, user_question, raw_text, messages, modelCalls, modelOutcome,
                   extraction, payload, posts, postOutcome, n8n_resp, n8n_data,
                   final_answer, email_body, status, rendered>>

\* Lines 163-164.
WarnNoRecipient ==
    /\ pc = "send"
    /\ recipient = ""
    /\ messages' = messages \cup {"warning: Please provide a recipient email before sending."}
    /\ pc' = "done"
    /\ UNCHANGED <<uploaded_file, user_question, raw_text, modelCalls, modelOutcome, extraction,
                   offered, recipient, send_button, payload, posts, postOutcome,
                   n8n_resp, n8n_data, final_answer, email_body, status, rendered>>

\* Lines 165-181: the payload is built and POSTed once; every exception of
\* the try block becomes {"error": str(e)}.
PostWebhook ==
    /\ pc = "send"
    /\ recipient # ""
    /\ payload' = BuildPayload(raw_text, extraction, user_question, recipient,
                               uploaded_file.name)
    /\ \E o \in PostOutcomes :
        /\ postOutcome' = o.kind
        /\ n8n_resp' = PostResult(o)
        /\ messages' = messages \cup
               {IF o.kind = "json" THEN "success: Webhook called successfully."
                                   ELSE "error: Failed to call n8n webhook"}
    /\ posts' = posts + 1
    /\ pc' = "process"
    /\ UNCHANGED <<uploaded_file, user_question, raw_text, modelCalls, modelOutcome, extraction,
                   offered, recipient, send_button, n8n_data, final_answer,
                   email_body, status, rendered>>

\* Lines 184-214: normalization, the three fields, the three expanders; any
\* exception on the way shows the raw response instead.
ProcessResponse ==
    /\ pc = "process"
    /\ LET d == NormalizeResponse(n8n_resp)
       IN  IF d.t = "dict"
           THEN /\ n8n_data' = d
                /\ final_answer' = PickField(d, "final_answer", "finalAnswer")
                /\ email_body' = PickField(d, "email_body", "emailBody")
                /\ status' = PickField(d, "automation_status", "status")
                /\ messages' = messages \cup
                       {StatusMessage(PickField(d, "automation_status", "status"))}
                /\ rendered' = "fields"
           ELSE /\ n8n_data' = IF d = Raised THEN n8n_data ELSE d
                /\ messages' = messages \cup {"error: Error processing n8n response"}
                /\ rendered' = "raw"
                /\ UNCHANGED <<final_answer, email_body, status>>
    /\ pc' = "done"
    /\ UNCHANGED <<uploaded_file, user_question, raw_text, modelCalls, modelOutcome, extraction,
                   offered, recipient, send_button, payload, posts, postOutcome,
                   n8n_resp>>

\* The next interaction reruns the script from the top.
Rerun ==
    /\ pc \in {"done", "stopped"}
    /\ pc' = "idle"
    /\ uploaded_file' = NoFile
    /\ user_question' = ""
    /\ raw_text' = <<>>
    /\ messages' = {}
    /\ modelCalls' = 0
    /\ modelOutcome' = "none"
    /\ extraction' = NoValue
    /\ offered' = FALSE
    /\ recipient' = ""
    /\ send_button' = FALSE
    /\ payload' = NoValue
    /\ posts' = 0
    /\ postOutcome' = "none"
    /\ n8n_resp' = NoValue
    /\ n8n_data' = NoValue
    /\ final_answer' = NoValue
    /\ email_body' = NoValue
    /\ status' = NoValue
    /\ rendered' = "none"

Next ==
    \/ ReadInputs
    \/ ExtractText
    \/ CheckText
    \/ CallGemini
    \/ Widgets
    \/ WarnNoRecipient
    \/ PostWebhook
    \/ ProcessResponse
    \/ Rerun

Spec == Init /\ [][Next]_vars

\* ------------------------------------------------------------- properties
\* The run has passed line 140: raw_text holds the extractor's result.
Extracted ==
    \/ pc \in {"check", "stopped", "gemini", "widgets", "send", "process"}
    \/ pc = "done" /\ offered

\* call_gemini has returned in this run.
GeminiReturned == modelOutcome # "none"

IsErrorShape(r) == r.t = "dict" /\ DOMAIN r.v = {"error"}

IsRawOutputShape(r) == r.t = "dict" /\ DOMAIN r.v = {"raw_output", "parse_error"}

IsSchemaShape(r) ==
    /\ ConformsInvoiceSchema(r)
    /\ DOMAIN r.v \cap {"error", "raw_output", "parse_error"} = {}

\* C1: whatever the model replies and however the call fails, the value
\* call_gemini returns is an {error} object, a {raw_output, parse_error}
\* object or a schema-conforming object with extracted_pairs, and nothing else.
C1_ExactlyOneShape ==
    GeminiReturned =>
        \/ IsErrorShape(extraction)
        \/ IsRawOutputShape(extraction)
        \/ IsSchemaShape(extraction)

\* A word of the message that contains the letters "failed".
HasFailed(w) == w \in {"failed", "failed:"}

C2_WitnessNoText ==
    /\ pc = "widgets"
    /\ modelOutcome = "nocand"
    /\ IsErrorShape(extraction)

\* C3: a press of the send button with an empty recipient shows the warning
\* and makes no outbound request in the run that handles the press: no
\* webhook POST and no model call.
C3_NoRequestOnEmptyRecipient ==
    (pc = "done" /\ send_button /\ recipient = "") =>
        /\ "warning: Please provide a recipient email before sending." \in messages
        /\ posts = 0
        /\ modelCalls = 0

\* C4: for a PDF that one of the two methods could read, the extracted text
\* is the texts of the pages that have text, each once, in page order,
\* joined by a blank line.
C4_PageTextsInOrder ==
    (/\ Extracted
     /\ IsPdfName(uploaded_file.name)
     /\ ~(uploaded_file.failAt > 0 /\ uploaded_file.fitzFails)) =>
        raw_text = Join(SelectSeq(uploaded_file.pages, HasText))

\* C5: when extraction yields the empty string the run reports it and stops:
\* no model call, no send-mail control, no webhook POST.
C5_EmptyTextHalts ==
    (Extracted /\ raw_text = <<>>) =>
        /\ pc \in {"check", "stopped"}
        /\ modelCalls = 0
        /\ ~offered
        /\ posts = 0
        /\ (pc = "stopped" =>
               "error: No text extracted from the document." \in messages)

C5_Witness ==
    /\ pc = "stopped"
    /\ uploaded_file.failAt > 0
    /\ uploaded_file.fitzFails
    /\ Len(uploaded_file.pages) > 0
    /\ "error: PDF extraction fallback failed" \in messages
    /\ "error: No text extracted from the document." \in messages

\* C6: a press with a non-empty recipient makes exactly one webhook POST; a
\* transport error, a non-2xx status or a non-JSON body becomes {error} and
\* the run goes on to render the response.
C6_OnePostFailureCaught ==
    (pc = "process" \/ (pc = "done" /\ send_button /\ recipient # "")) =>
        /\ posts = 1
        /\ n8n_resp.t \notin {"raise", "unset"}
        /\ (postOutcome \in {"transport", "status", "nonjson"} => IsErrorShape(n8n_resp))
        /\ (pc = "done" => rendered # "none")

C6_Witness ==
    /\ pc = "done"
    /\ send_button
    /\ recipient # ""
    /\ postOutcome = "nonjson"
    /\ posts = 1
    /\ IsErrorShape(n8n_resp)
    /\ rendered = "fields"

\* C7: the payload POSTed in a run carries in extracted_json exactly the
\* value call_gemini returned in that run, with the run's question,
\* recipient and file name.
C7_PayloadCarriesExtraction ==
    posts > 0 =>
        /\ payload.extracted_json = extraction
        /\ payload.user_question = user_question
        /\ payload.recipient_email = recipient
        /\ payload.file_name = uploaded_file.name

C7_Witness ==
    /\ posts = 1
    /\ IsErrorShape(extraction)
    /\ payload.extracted_json = extraction
    /\ payload.recipient_email = "approver@example.com"

\* The data object as the claim words it.
SelectedByRule(body) ==
    CASE body.t = "list" /\ Len(body.v) > 0 ->
            IF body.v[1].t = "dict" /\ "json" \in DOMAIN body.v[1].v
            THEN body.v[1].v["json"] ELSE body.v[1]
      [] body.t = "dict" ->
            IF "json" \in DOMAIN body.v THEN body.v["json"] ELSE body
      [] OTHER -> EmptyDict

\* C8: the data object is element 0's json field or element 0 for a list,
\* the json field or the object for an object, {} otherwise; when it is not
\* an object the raw response is shown instead.
C8_NormalizationRule ==
    rendered # "none" =>
        LET sel == SelectedByRule(n8n_resp)
        IN  IF sel.t = "dict"
            THEN rendered = "fields" /\ n8n_data = sel
            ELSE rendered = "raw"

C8_Witness ==
    /\ rendered = "fields"
    /\ n8n_resp.t = "list"
    /\ Len(n8n_resp.v) > 0
    /\ "json" \in DOMAIN n8n_resp.v[1].v
    /\ n8n_data = n8n_resp.v[1].v["json"]
    /\ n8n_data # n8n_resp.v[1]

C8_WitnessRaw ==
    /\ rendered = "raw"
    /\ n8n_resp.t = "dict"
    /\ "json" \in DOMAIN n8n_resp.v
    /\ n8n_resp.v["json"].t # "dict"

\* The value the run used for a pair of keys.
Used(first) ==
    CASE first = "final_answer" -> final_answer
      [] first = "email_body" -> email_body
      [] first = "automation_status" -> status

\* Lines 197, 200 and 203: what an expander shows for a value, the value
\* itself or the "nothing returned" text.
Shown(val) == IF Truthy(val) THEN val ELSE JStr("nothing returned")

\* C9: whenever the first-listed key of a pair is present in the response,
\* its value is the one used, so the expander shows what it would show for
\* that value.
C9_FirstKeyWhenPresent ==
    rendered = "fields" =>
        \A kp \in FieldPairs :
            kp[1] \in DOMAIN n8n_data.v =>
                Shown(Used(kp[1])) = Shown(n8n_data.v[kp[1]])

\* C9 as amended: the first-listed key's value is used whenever it is present
\* and truthy; otherwise (absent, or None, or "") the value used is that of
\* the alternate key, None when that one is absent.
C9_FirstKeyWhenTruthy ==
    rendered = "fields" =>
        \A kp \in FieldPairs :
            IF kp[1] \in DOMAIN n8n_data.v /\ Truthy(n8n_data.v[kp[1]])
            THEN Used(kp[1]) = n8n_data.v[kp[1]]
            ELSE Used(kp[1]) = Get(n8n_data, kp[2])

C9_Witness ==
    /\ rendered = "fields"
    /\ {"final_answer", "finalAnswer"} \subseteq DOMAIN n8n_data.v
    /\ n8n_data.v["final_answer"] = JStr("Sent")
    /\ n8n_data.v["finalAnswer"] = JStr("pending")
    /\ final_answer = JStr("Sent")

\* C10: normalizing the normalized response gives the normalized response.
C10_Idempotent ==
    rendered = "fields" => NormalizeResponse(n8n_data) = n8n_data

IsFlatObject(r) == r.t = "dict" /\ "json" \notin DOMAIN r.v

\* C10 as amended: a reply that is a flat object (an object without a json
\* field) is its own normalization, and whenever the normalized response is
\* a flat object, normalizing it again gives the same object.
C10_IdempotentOnFlatObjects ==
    rendered # "none" =>
        /\ (IsFlatObject(n8n_resp) => n8n_data = n8n_resp)
        /\ (IsFlatObject(n8n_data) => NormalizeResponse(n8n_data) = n8n_data)

C10_Witness ==
    /\ rendered = "fields"
    /\ IsFlatObject(n8n_resp)
    /\ DOMAIN n8n_resp.v = {"email_body", "emailBody"}
    /\ n8n_data = n8n_resp
    /\ NormalizeResponse(n8n_data) = n8n_data

====
